---- MODULE Spec2Model ----
(***************************************************************************)
(* DensityMatrix.density (sisl/physics/densitymatrix.py): the projection   *)
(* of a sparse orbital density matrix onto a real-space grid.              *)
(*                                                                         *)
(* The geometry is one-dimensional with integer coordinates: the grid has  *)
(* NGrid points at x = 0 .. NGrid-1 (dcell = 1, origo = 0), the geometry   *)
(* has the same cell length and three periodic images (nsc = 3).  Two      *)
(* atoms: atom 0 carries orbitals 0 and 1, atom 1 carries orbital 2.       *)
(* Complex numbers are pairs <<re, im>> of integers.                       *)
(*                                                                         *)
(* Further specifications over the same variables: SpecObj, the calls on   *)
(* a DensityMatrix / EnergyDensityMatrix object (Dk / Ek, the D / E        *)
(* accessor); SpecSile, read and write with the handle they work on;       *)
(* SpecNsc and SpecSwap, SuperCell.set_nsc and SuperCell.swapaxes as the   *)
(* tests of sids/tests/test_supercell.py call them.  Each specification    *)
(* leaves the variables of the others at rest.                             *)
(***************************************************************************)
EXTENDS Integers, Sequences, FiniteSets, TLC

\* one call of density()
VARIABLES pc, kind, D, spinor, tol, xyz, orbR, grid, grid0, grid_geometry,
          grid_geometry0, DM, csrDM, IA, k, idx, warn_cell, warn_skip, err, np_err

\* a DensityMatrix or EnergyDensityMatrix object and the calls made on it
VARIABLES cls, Dk_attr, def_dim, elem, chan, last, ret

\* one call of read or write and the file handle it works on
VARIABLES io_pc, io_req, io_log, io_out

\* a SuperCell and the results of swapaxes
VARIABLES sc_nsc, sc_sc_off, sc_cell, sab, sab2, last_n, last_ij

densvars == <<pc, kind, D, spinor, tol, xyz, orbR, grid, grid0, grid_geometry,
              grid_geometry0, DM, csrDM, IA, k, idx, warn_cell, warn_skip, err, np_err>>
objvars == <<cls, Dk_attr, def_dim, elem, chan, last, ret>>
silevars == <<io_pc, io_req, io_log, io_out>>
scvars == <<sc_nsc, sc_sc_off, sc_cell, sab, sab2, last_n, last_ij>>

vars == <<densvars, objvars, silevars, scvars>>

(* ---------------- bounds of the model ---------------- *)
NGrid == 3
MaxR == 2
MaxVal == 2

(* ---------------- Spin kinds (sisl.physics.spin.Spin) ---------------- *)
UNPOLARIZED == 0
POLARIZED == 1
NONCOLINEAR == 2
SPINORBIT == 3

SpinDim(kd) == CASE kd = UNPOLARIZED -> 1
                 [] kd = POLARIZED -> 2
                 [] kd = NONCOLINEAR -> 4
                 [] OTHER -> 8

(* ---------------- the geometry ---------------- *)
na == 2
AtomNo == <<2, 1>>
no == 3
n_s == 3
sc_off == <<0, 1, -1>>
primary_i_s == 0
CellL == NGrid

Atoms == 0 .. (na - 1)
Orbs == 0 .. (no - 1)
Cols == 0 .. (n_s * no - 1)
Pos == Orbs \X Cols
GridPts == 0 .. (NGrid - 1)

\* first orbital of an atom; a supercell atom index maps into the supercell orbitals
a2o(ia) == (IF ia % na = 0 THEN 0 ELSE AtomNo[1]) + (ia \div na) * no
\* atom that owns a (unit-cell) orbital
o2a(io) == IF io < AtomNo[1] THEN 0 ELSE 1
\* coordinate of a supercell atom
axyz(ja) == xyz[ja % na] + sc_off[(ja \div na) + 1] * CellL

Abs(x) == IF x < 0 THEN -x ELSE x
Max2(a, b) == IF a < b THEN b ELSE a

RECURSIVE SumN(_, _)
\* sum of F(0) .. F(n-1)
SumN(F(_), n) == IF n <= 0 THEN 0 ELSE F(n - 1) + SumN(F, n - 1)

\* largest cutoff radius of the orbitals of an atom, and of the geometry
atom_maxR(ia) ==
  LET a == ia % na
  IN  IF a = 0 THEN Max2(orbR[0], orbR[1]) ELSE orbR[2]
geom_maxR == Max2(atom_maxR(0), atom_maxR(1))

\* radial amplitude of orbital io at distance d of its centre: zero at and
\* beyond the cutoff radius
Amp == <<1, 2, 3>>
psi(io, d) == IF d < orbR[io] THEN Amp[io + 1] * (orbR[io] - d) ELSE 0

(* ---------------- complex arithmetic ---------------- *)
CAdd(a, b) == <<a[1] + b[1], a[2] + b[2]>>
CMul(a, b) == <<a[1] * b[1] - a[2] * b[2], a[1] * b[2] + a[2] * b[1]>>
CConj(a) == <<a[1], -a[2]>>
CRe(a) == a[1]
CZero == <<0, 0>>
COne == <<1, 0>>

(* ---------------- spinor arguments ---------------- *)
\* None, a Python integer, or an array: its shape and its values in row-major order
SpNone == [t |-> "none"]
SpInt(n) == [t |-> "int", n |-> n]
SpArr(shape, v) == [t |-> "arr", shape |-> shape, v |-> v]

ArrSize(sp) == Len(sp.v)
ArrNdim(sp) == Len(sp.shape)
\* element [i, j] of a two-dimensional array
At2(sp, i, j) == sp.v[i * sp.shape[2] + j + 1]
Transpose(sp) ==
  SpArr(<<sp.shape[2], sp.shape[1]>>,
        [n \in 1 .. Len(sp.v) |->
           At2(sp, (n - 1) % sp.shape[1], (n - 1) \div sp.shape[1])])

(* ---------------- step 2: spin reduction (lines 192-246) ---------------- *)
\* the 2x2 complex spin box of one stored element d (its components d[1] .. d[dim])
SpinBox(kd, d) ==
  IF kd = NONCOLINEAR
  THEN [ij \in {0, 1} \X {0, 1} |->
          CASE ij = <<0, 0>> -> <<d[1], 0>>
            [] ij = <<1, 1>> -> <<d[2], 0>>
            [] ij = <<1, 0>> -> <<d[3], -d[4]>>
            [] OTHER -> CConj(<<d[3], -d[4]>>)]
  ELSE [ij \in {0, 1} \X {0, 1} |->
          CASE ij = <<0, 0>> -> <<d[1], d[5]>>
            [] ij = <<1, 1>> -> <<d[2], d[6]>>
            [] ij = <<1, 0>> -> <<d[3], -d[4]>>
            [] OTHER -> <<d[7], d[8]>>]

\* dot(DM, spinor.T)[:, [0, 1], [0, 1]].sum(1).real for one element;
\* spT is spinor.T, dot(DM, spT)[i, j] = sum_k DM[i, k] * spT[k, j]
DotDiagReal(box, spT) ==
  LET dotij(i, j) == CAdd(CMul(box[<<i, 0>>], At2(spT, 0, j)),
                          CMul(box[<<i, 1>>], At2(spT, 1, j)))
  IN  CRe(CAdd(dotij(0, 0), dotij(1, 1)))

Identity2 == SpArr(<<2, 2>>, <<COne, CZero, CZero, COne>>)

\* the one-hot vector with the two channels exchanged
OneHot_swapped(n) == IF n \in {0, -2} THEN <<0, 1>> ELSE <<1, 0>>

\* s = zerosd(2); s[spinor] = 1. with Python's indexing of a length-2 array
OneHot(n) == IF n \in {0, -2} THEN <<1, 0>> ELSE <<0, 1>>
IndexOK(n) == n \in -2 .. 1

\* outcome of the spin reduction: the error raised (or "none") and the
\* scalar value of every element
ReduceSpinOp(kd, M, sp) ==
  IF kd > POLARIZED
  THEN LET s == IF sp.t = "none" THEN Identity2
                ELSE IF sp.t = "int" THEN SpArr(<<>>, <<<<sp.n, 0>>>>)
                ELSE sp
       IN  IF ArrSize(s) # 4 \/ ArrNdim(s) # 2
           THEN [err |-> "ValueError_2x2", DM |-> [p \in Pos |-> 0]]
           ELSE IF s.shape # <<2, 2>>
           THEN [err |-> "ValueError_dot", DM |-> [p \in Pos |-> 0]]
           ELSE [err |-> "none",
                 DM |-> [p \in Pos |-> DotDiagReal(SpinBox(kd, M[p]), Transpose(s))]]
  ELSE IF kd = POLARIZED
  THEN IF sp.t = "int" /\ ~IndexOK(sp.n)
       THEN [err |-> "IndexError", DM |-> [p \in Pos |-> 0]]
       ELSE IF sp.t = "arr" /\ (ArrSize(sp) # 2 \/ ArrNdim(sp) # 1)
       THEN [err |-> "ValueError_polarized", DM |-> [p \in Pos |-> 0]]
       ELSE LET s == IF sp.t = "none" THEN <<1, 1>>
                     ELSE IF sp.t = "int" THEN OneHot(sp.n)
                     ELSE <<CRe(sp.v[1]), CRe(sp.v[2])>>
            IN  [err |-> "none",
                 DM |-> [p \in Pos |-> M[p][1] * s[1] + M[p][2] * s[2]]]
  ELSE [err |-> "none", DM |-> [p \in Pos |-> M[p][1]]]

(* ---------------- step 3: fold of the primary image (lines 260-274) ---------------- *)
\* the fold that keeps triu(csr) and forgets the transposed lower triangle
FoldOp_triu(M) ==
  [p \in Pos |->
     IF p[2] \div no = primary_i_s /\ p[1] > p[2] % no THEN 0 ELSE M[p]]

\* triu(csr) + tril(csr, -1).transpose() on the primary block, other blocks as stored
FoldOp(M) ==
  [p \in Pos |->
     LET i == p[1]
         j == p[2] % no
         o_start == (p[2] \div no) * no
     IN  IF p[2] \div no = primary_i_s
         THEN IF i < j THEN M[<<i, o_start + j>>] + M[<<j, o_start + i>>]
              ELSE IF i = j THEN M[p]
              ELSE 0
         ELSE M[p]]

(* ---------------- step 4: tolerance (lines 276-282) ---------------- *)
\* np.where(np.fabs(data) > tol, data, 0.), then eliminate_zeros
TolOp(M, t) == [p \in Pos |-> IF Abs(M[p]) > t THEN M[p] ELSE 0]

(* ---------------- step 5: atoms reaching the grid (lines 284-371) ---------------- *)
\* periodic images that can reach the grid
ImgK == MaxR + 2
Images == (0 - ImgK) .. ImgK

\* geometry.within_inf(sc) for the grid cell [0, NGrid] inflated by add_R on
\* both sides: every atom replica <<ia, isc>> inside, ordered by image
WithinInf(add_R) ==
  LET cand == [n \in 1 .. (na * (2 * ImgK + 1)) |->
                 <<(n - 1) % na, ((n - 1) \div na) - ImgK>>]
      inside(c) == LET x == xyz[c[1]] + c[2] * CellL
                   IN  (0 - add_R) <= x /\ x <= NGrid + add_R
  IN  SelectSeq(cand, inside)

\* ja is a connection of atom ia in the sparse atom pattern of M, the atom
\* itself (in the primary image) removed
a_col(M, ia, ja) ==
  /\ ja # na * primary_i_s + ia
  /\ \E io \in 0 .. (AtomNo[ia + 1] - 1), jo \in 0 .. (AtomNo[(ja % na) + 1] - 1) :
        M[<<a2o(ia) + io, a2o(ja) + jo>>] # 0

(* ---------------- step 6: one atom of the loop (lines 379-534) ---------------- *)
Clamp(i) == IF i < 0 THEN 0 ELSE IF NGrid <= i THEN NGrid - 1 ELSE i

\* grid.index(sphere): the indices of the points within R of the centre,
\* those beyond the ends of the grid included
SphereIdx(ia_xyz, R) == [n \in 1 .. (2 * R + 1) |-> ia_xyz - R + n - 1]

\* lines 403-408: indices below 0 become 0, those from shape on become shape - 1
ClampIdx(s) == [n \in 1 .. Len(s) |-> Clamp(s[n])]

\* the index list passed on as it is
UniqueIdx_keep(s) == s

\* numpy.unique(idx, axis=0): the distinct rows in increasing order
UniqueIdx(s) ==
  LET S == {s[n] : n \in 1 .. Len(s)}
      below(i) == Cardinality({j \in S : j < i})
  IN  [n \in 1 .. Cardinality(S) |-> CHOOSE i \in S : below(i) = n - 1]

\* lines 394-411: idx as it is used for grid_xyz and the write
AtomIdxSeq(ia_xyz, R) == UniqueIdx(ClampIdx(SphereIdx(ia_xyz, R)))

\* the grid points idx names
AtomIdx(ia_xyz, R) == {AtomIdxSeq(ia_xyz, R)[n] : n \in 1 .. Len(AtomIdxSeq(ia_xyz, R))}

\* DM_pj[io, p] before the final product with psi_i: the connection loop
ConnPart(M, ia, cell_offset, io, p) ==
  LET IO == a2o(ia)
      part(ja) ==
        LET JO == a2o(ja)
            jR == atom_maxR(ja)
            d == Abs(p - (axyz(ja) + cell_offset))
            orb(jo) == LET o == a2o(ja % na) + jo
                           oR == orbR[o]
                       IN  IF jR - oR < 1 \/ d <= oR
                           THEN M[<<IO + io, JO + jo>>] * psi(o, d)
                           ELSE 0
        IN  IF d <= jR /\ a_col(M, ia, ja)
            THEN SumN(orb, AtomNo[(ja % na) + 1])
            ELSE 0
  IN  SumN(part, n_s * na)

\* the on-site loop: strict upper triangle and diagonal
OnSitePart(M, ia, ia_xyz, io, p) ==
  LET IO == a2o(ia)
      off == no * primary_i_s
      R == atom_maxR(ia)
      d == Abs(p - ia_xyz)
      up(jo) == IF io < jo /\ (R - orbR[IO + jo] < 1 \/ d <= orbR[IO + jo])
                THEN M[<<IO + io, off + IO + jo>>] * psi(IO + jo, d)
                ELSE 0
  IN  SumN(up, AtomNo[ia + 1]) + M[<<IO + io, off + IO + io>>] * psi(IO + io, d)

\* DM_pj.sum(0) at grid point p for the atom replica <<ia, isc>>
AtomField(M, ia, isc, p) ==
  LET ia_xyz == xyz[ia] + isc * CellL
      cell_offset == isc * CellL
      row(io) == (ConnPart(M, ia, cell_offset, io, p) + OnSitePart(M, ia, ia_xyz, io, p))
                 * psi(a2o(ia) + io, Abs(p - ia_xyz))
  IN  SumN(row, AtomNo[ia + 1])

\* the write that assigns the atom's field instead of adding it
AtomWrite_assign(g, M, ia, isc) ==
  [p \in GridPts |->
     IF p \in AtomIdx(xyz[ia] + isc * CellL, atom_maxR(ia))
     THEN AtomField(M, ia, isc, p)
     ELSE g[p]]

\* grid.grid[idx[:, 0], idx[:, 1], idx[:, 2]] += DM_pj.sum(0)
AtomWrite(g, M, ia, isc) ==
  [p \in GridPts |->
     IF p \in AtomIdx(xyz[ia] + isc * CellL, atom_maxR(ia))
     THEN g[p] + AtomField(M, ia, isc, p)
     ELSE g[p]]

\* one pass of the loop body: an atom without a wave-function is skipped
AtomStepOp(g, M, ia, isc) ==
  IF atom_maxR(ia) <= 0 THEN g ELSE AtomWrite(g, M, ia, isc)

(* ---------------- inputs ---------------- *)
TolSet == {0, 1}
Vals == (0 - 1) .. MaxVal
SpinVals == {0 - 1, 0, 1}
GridInits == {[p \in GridPts |-> 0], [p \in GridPts |-> p + 1]}

ZeroTuple(kd) == [c \in 1 .. SpinDim(kd) |-> 0]
\* the transposed position within the same image block
Mirror(e) == <<e[2] % no, (e[2] \div no) * no + e[1]>>
\* a matrix with at most two stored elements
Mat2(kd, e1, t1, e2, t2) ==
  [p \in Pos |-> IF p = e1 THEN t1 ELSE IF p = e2 THEN t2 ELSE ZeroTuple(kd)]
\* component tuples with at most two non-zero components
TwoHot(kd) ==
  {[c \in 1 .. SpinDim(kd) |-> (IF c = c1 THEN v1 ELSE 0) + (IF c = c2 /\ c2 # c1 THEN v2 ELSE 0)] :
     <<c1, c2, v1, v2>> \in (1 .. SpinDim(kd)) \X (1 .. SpinDim(kd)) \X SpinVals \X SpinVals}

\* a matrix with elements in both triangles of the primary image, on-site and
\* between the atoms, and in both other images
RichMatrix ==
  [p \in Pos |->
     CASE p = <<0, 1>> -> <<1>>
       [] p = <<1, 0>> -> <<2>>
       [] p = <<0, 0>> -> <<1>>
       [] p = <<0, 2>> -> <<1>>
       [] p = <<2, 1>> -> <<0 - 1>>
       [] p = <<0, 5>> -> <<2>>
       [] p = <<2, 6>> -> <<1>>
       [] p = <<1, 4>> -> <<1>>
       [] p = <<2, 2>> -> <<2>>
       [] OTHER -> <<0>>]
ZeroMatrix(kd) == [p \in Pos |-> ZeroTuple(kd)]

Re(x) == <<x, 0>>
Im(x) == <<0, x>>
PauliX == SpArr(<<2, 2>>, <<CZero, COne, COne, CZero>>)
PauliY == SpArr(<<2, 2>>, <<CZero, Im(0 - 1), Im(1), CZero>>)
PauliZ == SpArr(<<2, 2>>, <<COne, CZero, CZero, Re(0 - 1)>>)

PolarizedSpinors ==
  {SpNone} \cup {SpInt(n) : n \in (0 - 3) .. 2}
  \cup {SpArr(<<2>>, <<Re(a), Re(b)>>) : <<a, b>> \in {<<1, 1>>, <<1, 0 - 1>>, <<2, 1>>}}
  \cup {SpArr(<<1, 2>>, <<COne, COne>>), SpArr(<<2, 1>>, <<COne, COne>>),
        SpArr(<<3>>, <<COne, COne, COne>>), SpArr(<<>>, <<COne>>),
        SpArr(<<2, 2>>, <<COne, CZero, CZero, COne>>)}
BoxSpinors ==
  {SpNone, SpInt(1), Identity2, PauliX, PauliY, PauliZ,
   SpArr(<<2, 2>>, <<COne, Im(1), CZero, Re(2)>>),
   SpArr(<<2, 2>>, <<CZero, COne, CZero, CZero>>),
   SpArr(<<1, 4>>, <<COne, CZero, CZero, COne>>),
   SpArr(<<4, 1>>, <<COne, CZero, CZero, COne>>),
   SpArr(<<4>>, <<COne, CZero, CZero, COne>>),
   SpArr(<<2>>, <<COne, COne>>), SpArr(<<>>, <<COne>>)}
Spinors(kd) == IF kd = POLARIZED THEN PolarizedSpinors ELSE BoxSpinors

DefaultXyz == [a \in Atoms |-> a]
DefaultR == [o \in Orbs |-> IF o = 1 THEN 1 ELSE MaxR]

\* the three families of inputs: matrices, geometries, spin configurations
InitMatrix ==
  /\ kind = UNPOLARIZED /\ spinor = SpNone
  /\ \E e1 \in Pos, v1, v2 \in Vals :
        \E e2 \in {Mirror(e1), <<1, 1>>} : D = Mat2(UNPOLARIZED, e1, <<v1>>, e2, <<v2>>)
  /\ tol \in TolSet
  /\ xyz = DefaultXyz /\ orbR = DefaultR
  /\ grid0 = [p \in GridPts |-> p + 1] /\ grid_geometry = "None"

InitGeometry ==
  /\ kind = UNPOLARIZED /\ spinor = SpNone
  /\ D \in {RichMatrix, ZeroMatrix(UNPOLARIZED)}
  /\ tol = 0
  /\ xyz \in {f \in [Atoms -> (0 - 1) .. NGrid] : f[1] = 1}
  /\ orbR \in [Orbs -> (0 - 1) .. MaxR]
  /\ grid0 \in GridInits /\ (D = RichMatrix => grid0 = [p \in GridPts |-> p + 1])
  /\ grid_geometry = "None"

InitSpin ==
  /\ kind \in {POLARIZED, NONCOLINEAR, SPINORBIT}
  /\ spinor \in Spinors(kind)
  /\ \E t1 \in TwoHot(kind) : D = Mat2(kind, <<0, 2>>, t1, <<0, 2>>, t1)
  /\ tol \in TolSet /\ (kind # POLARIZED => tol = 0)
  /\ xyz = DefaultXyz /\ orbR = DefaultR
  /\ grid0 = [p \in GridPts |-> p + 1]
  /\ grid_geometry \in {"None", "own"} /\ (kind # POLARIZED => grid_geometry = "None")

(* ---------------- the matrix object (lines 57-117; energydensitymatrix.py 40-99) ---------------- *)
Classes == {"DensityMatrix", "EnergyDensityMatrix"}

\* SparseOrbitalBZSpin.UP, the first channel
UP == 0
\* the channels of a stored element: up, down and the overlap
Chan == 0 .. SpinDim(POLARIZED)
ElemVals == 0 .. 1
Gauges == {"R", "r"}

\* a constructor that leaves Dk (Ek) the method of the class, whose body is
\* `pass`
InitAttr_unbound == "stub"

\* __init__: self.Dk = self.Pk (self.Ek = self.Pk)
InitAttr == "Pk"

\* SparseOrbitalBZSpin.Pk: the matrix for the gauge 'R'; the gauge 'r' is
\* not implemented
PkOp(gauge) == IF gauge = "R" THEN "matrix" ELSE "NotImplementedError"

\* obj.Dk(gauge=gauge): the attribute of the instance is found first; the
\* method of the class returns None
DkOp(attr, gauge) == IF attr = "Pk" THEN PkOp(gauge) ELSE "None"

\* an accessor that returns the object and leaves _def_dim as it is
get_D_keep(d) == d

\* _get_D (_get_E): self._def_dim = self.UP
get_D(d) == UP

\* the last call on the object: its name, the gauge or the value it was
\* given, and _def_dim as the call found it
OpRec(op, gauge, val, was) == [op |-> op, gauge |-> gauge, val |-> val, was |-> was]
Ret(tag, val) == <<tag, val>>

ObjAtRest ==
  /\ cls = "DensityMatrix" /\ Dk_attr = InitAttr
  /\ def_dim = UP /\ elem = [c \in Chan |-> 0] /\ chan = UP
  /\ last = OpRec("init", "", 0, UP) /\ ret = Ret("self", 0)

(* ---------------- read and write (lines 540-570; energydensitymatrix.py 101-131) ---------------- *)
Methods == {"read_density_matrix", "write_density_matrix",
            "read_energy_density_matrix", "write_energy_density_matrix"}
IoOps == {"read", "write"}

\* the method of the handle that read / write of class c call
Matching(c, op) ==
  IF c = "DensityMatrix"
  THEN (IF op = "read" THEN "read_density_matrix" ELSE "write_density_matrix")
  ELSE (IF op = "read" THEN "read_energy_density_matrix" ELSE "write_energy_density_matrix")

\* the mode get_sile is given: none for read, 'w' for write
Mode(op) == IF op = "read" THEN "default" ELSE "w"

\* fh.<method>(...): the attribute lookup fails on a handle without the
\* method, the method itself returns or raises
CallOutcome(m, caps, raises) ==
  IF m \notin caps THEN "AttributeError"
  ELSE IF raises THEN "SileError" ELSE "returned"

IoReq(op, sile, caps, raises) == [op |-> op, sile |-> sile, caps |-> caps, raises |-> raises]

SileAtRest ==
  /\ io_pc = "idle" /\ io_req = IoReq("none", "none", {}, FALSE)
  /\ io_log = <<>> /\ io_out = "none"

(* ---------------- SuperCell (sids/tests/test_supercell.py) ---------------- *)
MaxNsc == 5
MaxCell == 1
Axes == 0 .. 2

\* a requested count that is kept when it is even
OddAtLeast_keep(n) == IF n <= 0 THEN 1 ELSE n

\* the smallest odd integer >= n, and at least 1
OddAtLeast(n) == IF n <= 0 THEN 1 ELSE IF n % 2 = 1 THEN n ELSE n + 1

\* all integer triplets <<i, j, k>> with i in -(nx \div 2) .. nx \div 2 etc.,
\* the last axis running fastest
ScOff(n) ==
  [m \in 1 .. (n[1] * n[2] * n[3]) |->
     << ((m - 1) \div (n[2] * n[3])) - (n[1] \div 2),
        (((m - 1) \div n[3]) % n[2]) - (n[2] \div 2),
        ((m - 1) % n[3]) - (n[3] \div 2) >>]

\* set_nsc(n): the counts are normalised, sc_off is generated anew
SetNsc(n) ==
  LET nn == [c \in 1 .. 3 |-> OddAtLeast(n[c])]
  IN  [nsc |-> nn, sc_off |-> ScOff(nn)]

\* an exchange done by two assignments in a row, without a temporary: row i
\* gets row j, row j then gets its own value back
SwapAxes_onlyone(cell, i, j) ==
  [r \in 1 .. 3 |-> IF r = i + 1 THEN cell[j + 1] ELSE cell[r]]

\* swapaxes(i, j): the cell with the rows i and j exchanged
SwapAxes(cell, i, j) ==
  [r \in 1 .. 3 |-> IF r = i + 1 THEN cell[j + 1]
                    ELSE IF r = j + 1 THEN cell[i + 1] ELSE cell[r]]

\* setUp: SuperCell(cell, nsc=[3, 3, 1])
SetUpNsc == <<3, 3, 1>>
UnitCell == <<<<1, 0, 0>>, <<0, 1, 0>>, <<0, 0, 1>>>>

ScAtRest ==
  /\ sc_nsc = SetUpNsc /\ sc_sc_off = ScOff(SetUpNsc)
  /\ sc_cell = UnitCell /\ sab = <<>> /\ sab2 = <<>>
  /\ last_n = SetUpNsc /\ last_ij = <<0, 0>>

(* ---------------- the state before density() ---------------- *)
Init ==
  /\ ObjAtRest /\ SileAtRest /\ ScAtRest
  /\ pc = "start"
  /\ (InitMatrix \/ InitGeometry \/ InitSpin)
  /\ grid = grid0 /\ grid_geometry0 = grid_geometry
  /\ DM = [p \in Pos |-> 0] /\ csrDM = [p \in Pos |-> 0]
  /\ IA = <<>> /\ k = 0 /\ idx = <<>>
  /\ warn_cell = FALSE /\ warn_skip = 0
  /\ err = "none" /\ np_err = "warn"

(* ---------------- the steps of density() ---------------- *)
\* lines 168-190: the coordinate check (fxyz = xyz / cell) and np.seterr
CheckCoordinates ==
  /\ pc = "start"
  /\ LET f_min_neg == \E a \in Atoms : xyz[a] < 0
         f_max_gt1 == \E a \in Atoms : CellL < xyz[a]
     IN  warn_cell' = (f_min_neg \/ f_max_gt1)
  /\ np_err' = "ignore"
  /\ pc' = "spin"
  /\ UNCHANGED <<objvars, silevars, scvars, idx, kind, D, spinor, tol, xyz, orbR, grid, grid0, grid_geometry0, grid_geometry,
                 DM, csrDM, IA, k, warn_skip, err>>

\* lines 192-249: spin reduction, normal outcome
ReduceSpin ==
  /\ pc = "spin"
  /\ LET r == ReduceSpinOp(kind, D, spinor)
     IN  /\ r.err = "none"
         /\ DM' = r.DM
         /\ csrDM' = r.DM
  /\ pc' = "fold"
  /\ UNCHANGED <<objvars, silevars, scvars, idx, kind, D, spinor, tol, xyz, orbR, grid, grid0, grid_geometry0, grid_geometry,
                 IA, k, warn_cell, warn_skip, err, np_err>>

\* the spinor check placed after the grid has been given its geometry
ReduceSpinError_after_setup ==
  /\ pc = "spin"
  /\ LET r == ReduceSpinOp(kind, D, spinor)
     IN  /\ r.err # "none"
         /\ err' = r.err
  /\ grid_geometry' = IF grid_geometry = "None" /\ Len(WithinInf(0)) > 0
                      THEN "created" ELSE grid_geometry
  /\ pc' = "error"
  /\ UNCHANGED <<objvars, silevars, scvars, idx, kind, D, spinor, tol, xyz, orbR, grid, grid0, grid_geometry0,
                 DM, csrDM, IA, k, warn_cell, warn_skip, np_err>>

\* lines 192-249: spin reduction raises
ReduceSpinError ==
  /\ pc = "spin"
  /\ LET r == ReduceSpinOp(kind, D, spinor)
     IN  /\ r.err # "none"
         /\ err' = r.err
  /\ pc' = "error"
  /\ UNCHANGED <<objvars, silevars, scvars, idx, kind, D, spinor, tol, xyz, orbR, grid, grid0, grid_geometry0, grid_geometry,
                 DM, csrDM, IA, k, warn_cell, warn_skip, np_err>>

\* lines 260-274
FoldImages ==
  /\ pc = "fold"
  /\ csrDM' = FoldOp(csrDM)
  /\ pc' = "tol"
  /\ UNCHANGED <<objvars, silevars, scvars, idx, kind, D, spinor, tol, xyz, orbR, grid, grid0, grid_geometry0, grid_geometry,
                 DM, IA, k, warn_cell, warn_skip, err, np_err>>

\* the tolerance applied to the stored elements of the matrix itself
DropSmall_inplace ==
  /\ pc = "tol"
  /\ csrDM' = TolOp(csrDM, tol)
  /\ D' = [p \in Pos |-> [c \in 1 .. Len(D[p]) |-> IF Abs(D[p][c]) <= tol THEN 0 ELSE D[p][c]]]
  /\ pc' = "setup"
  /\ UNCHANGED <<objvars, silevars, scvars, idx, kind, spinor, tol, xyz, orbR, grid, grid0, grid_geometry0, grid_geometry,
                 DM, IA, k, warn_cell, warn_skip, err, np_err>>

\* lines 276-282
DropSmall ==
  /\ pc = "tol"
  /\ csrDM' = TolOp(csrDM, tol)
  /\ pc' = "setup"
  /\ UNCHANGED <<objvars, silevars, scvars, idx, kind, D, spinor, tol, xyz, orbR, grid, grid0, grid_geometry0, grid_geometry,
                 DM, IA, k, warn_cell, warn_skip, err, np_err>>

\* lines 284-308: the grid gets a geometry if it has none, the atoms are listed
SetupGrid ==
  /\ pc = "setup"
  /\ grid_geometry' = IF grid_geometry = "None" /\ Len(WithinInf(0)) > 0
                      THEN "created" ELSE grid_geometry
  /\ IA' = WithinInf(geom_maxR)
  /\ k' = 1
  /\ pc' = "loop"
  /\ UNCHANGED <<objvars, silevars, scvars, idx, kind, D, spinor, tol, xyz, orbR, grid, grid0, grid_geometry0,
                 DM, csrDM, warn_cell, warn_skip, err, np_err>>

\* the skip that leaves the loop instead of going on with the next atom
AtomSkip_break ==
  /\ pc = "loop" /\ k <= Len(IA)
  /\ atom_maxR(IA[k][1]) <= 0
  /\ warn_skip' = warn_skip + 1
  /\ k' = Len(IA) + 1
  /\ UNCHANGED <<objvars, silevars, scvars, idx, pc, kind, D, spinor, tol, xyz, orbR, grid, grid0, grid_geometry0, grid_geometry,
                 DM, csrDM, IA, warn_cell, err, np_err>>

\* lines 380-392: an atom without a wave-function
AtomSkip ==
  /\ pc = "loop" /\ k <= Len(IA)
  /\ atom_maxR(IA[k][1]) <= 0
  /\ warn_skip' = warn_skip + 1
  /\ k' = k + 1
  /\ UNCHANGED <<objvars, silevars, scvars, idx, pc, kind, D, spinor, tol, xyz, orbR, grid, grid0, grid_geometry0, grid_geometry,
                 DM, csrDM, IA, warn_cell, err, np_err>>

\* lines 380-534: an atom with a wave-function
AtomAdd ==
  /\ pc = "loop" /\ k <= Len(IA)
  /\ atom_maxR(IA[k][1]) > 0
  /\ idx' = AtomIdxSeq(xyz[IA[k][1]] + IA[k][2] * CellL, atom_maxR(IA[k][1]))
  /\ grid' = AtomWrite(grid, csrDM, IA[k][1], IA[k][2])
  /\ k' = k + 1
  /\ UNCHANGED <<objvars, silevars, scvars, pc, kind, D, spinor, tol, xyz, orbR, grid0, grid_geometry0, grid_geometry,
                 DM, csrDM, IA, warn_cell, warn_skip, err, np_err>>

\* lines 535-538
Finish ==
  /\ pc = "loop" /\ k > Len(IA)
  /\ np_err' = "warn"
  /\ pc' = "done"
  /\ UNCHANGED <<objvars, silevars, scvars, idx, kind, D, spinor, tol, xyz, orbR, grid, grid0, grid_geometry0, grid_geometry,
                 DM, csrDM, IA, k, warn_cell, warn_skip, err>>

Next ==
  \/ CheckCoordinates
  \/ ReduceSpin
  \/ ReduceSpinError
  \/ FoldImages
  \/ DropSmall
  \/ SetupGrid
  \/ AtomSkip
  \/ AtomAdd
  \/ Finish

Spec == Init /\ [][Next]_vars

(* ---------------- the whole call as a function of the matrix ---------------- *)
RECURSIVE RunAtoms(_, _, _, _)
\* the loop over the atoms of the list from entry n on
RunAtoms(g, M, list, n) ==
  IF n > Len(list) THEN g
  ELSE RunAtoms(AtomStepOp(g, M, list[n][1], list[n][2]), M, list, n + 1)

\* the grid after density() of the matrix M0 on the grid g0 (g0 itself when the call raises)
DensityOf(M0, g0) ==
  LET r == ReduceSpinOp(kind, M0, spinor)
  IN  IF r.err # "none" THEN g0
      ELSE RunAtoms(g0, TolOp(FoldOp(r.DM), tol), WithinInf(geom_maxR), 1)

(* ---------------- reference quantities of the claims ---------------- *)
\* sum over every periodic replica T of the cell and every orbital pair
\* (i, J) of  phi_i(r) * phi_J(r) * M[i, J]  at the grid point p
RefField(M, p) ==
  LET pair(T, i, J) ==
        IF M[<<i, J>>] = 0 THEN 0
        ELSE M[<<i, J>>]
             * psi(i, Abs(p - (xyz[o2a(i)] + T * CellL)))
             * psi(J % no, Abs(p - (xyz[o2a(J % no)] + (sc_off[(J \div no) + 1] + T) * CellL)))
      rowsum(T, i) == LET f(J) == pair(T, i, J) IN SumN(f, n_s * no)
      imgsum(T) == LET f(i) == rowsum(T, i) IN SumN(f, no)
      g(n) == imgsum(n - ImgK)
  IN  SumN(g, 2 * ImgK + 1)

\* the primary image with D_ij + D_ji held in the upper triangle, other images as stored
SymSum(M) ==
  [p \in Pos |->
     IF p[2] \div no # primary_i_s THEN M[p]
     ELSE IF p[1] < p[2] % no THEN M[p] + M[<<p[2] % no, p[1]>>]
     ELSE IF p[1] = p[2] % no THEN M[p]
     ELSE 0]

TupleAdd(a, b) == [c \in 1 .. Len(a) |-> a[c] + b[c]]
\* the matrix with every primary pair i < j moved into D_ij (D_ji absent)
MergeUpper(M) ==
  [p \in Pos |->
     IF p[2] \div no # primary_i_s \/ p[1] = p[2] % no THEN M[p]
     ELSE IF p[1] < p[2] % no THEN TupleAdd(M[p], M[<<p[2] % no, p[1]>>])
     ELSE [c \in 1 .. Len(M[p]) |-> 0]]
\* the matrix with every primary pair i < j moved into D_ji (D_ij absent)
MergeLower(M) ==
  [p \in Pos |->
     IF p[2] \div no # primary_i_s \/ p[1] = p[2] % no THEN M[p]
     ELSE IF p[1] > p[2] % no THEN TupleAdd(M[p], M[<<p[2] % no, p[1]>>])
     ELSE [c \in 1 .. Len(M[p]) |-> 0]]

\* the matrix with every stored value of magnitude <= tol replaced by zero
ZeroSmall(M) == [p \in Pos |-> [c \in 1 .. Len(M[p]) |-> IF Abs(M[p][c]) <= tol THEN 0 ELSE M[p][c]]]

Reduced == pc \in {"fold", "tol", "setup", "loop", "done"}

\* C1: one call increases every grid point by the sum, over every periodic
\* replica and every stored orbital pair whose spin-reduced value is above
\* the tolerance, of phi_nu(r) * phi_mu(r) * D_{nu,mu}, each pair counted once.
C1_EveryPairOnce ==
  pc = "done" => \A p \in GridPts : grid[p] = grid0[p] + RefField(TolOp(DM, tol), p)

\* With a zero tolerance every stored pair is counted exactly once.
PairsOnceNoTol ==
  (pc = "done" /\ tol = 0) => \A p \in GridPts : grid[p] = grid0[p] + RefField(DM, p)

\* The grid grows by the field of the folded sums that exceed the tolerance.
FoldedPairsOnce ==
  pc = "done" => \A p \in GridPts : grid[p] = grid0[p] + RefField(TolOp(SymSum(DM), tol), p)

\* C2: projecting a matrix whose entries are all zero leaves every grid value
\* as it was before the call, whatever the grid held, for every spin kind
\* and every accepted spinor.
C2_ZeroMatrixIdentity ==
  (pc \in {"loop", "done"} /\ D = ZeroMatrix(kind)) => grid = grid0

C2_Witness ==
  /\ pc = "done" /\ D = ZeroMatrix(kind) /\ kind = SPINORBIT /\ spinor = PauliY
  /\ k > 1 /\ grid0[0] # 0 /\ grid = grid0

\* C3: for a polarized matrix the scalar value of a pair with up-value u and
\* down-value d is u for spinor=0, d for spinor=1, u+d without a spinor and
\* a*u + b*d for the vector (a, b).
C3_PolarizedReduction ==
  (Reduced /\ kind = POLARIZED) =>
    \A p \in Pos :
      LET u == D[p][1]
          d == D[p][2]
      IN  /\ spinor = SpInt(0) => DM[p] = u
          /\ spinor = SpInt(1) => DM[p] = d
          /\ spinor = SpNone => DM[p] = u + d
          /\ (spinor.t = "arr" /\ spinor.shape = <<2>>) =>
                DM[p] = CRe(spinor.v[1]) * u + CRe(spinor.v[2]) * d

C3_Witness ==
  /\ pc = "done" /\ kind = POLARIZED /\ spinor = SpInt(1)
  /\ D[<<0, 2>>] = <<1, 0 - 1>> /\ DM[<<0, 2>>] = 0 - 1 /\ grid # grid0

\* C4: every stored value of magnitude <= tol is treated as strictly zero:
\* the call gives the grid that the matrix without these values gives.
C4_SmallElementsAreZero ==
  pc = "done" => grid = DensityOf(ZeroSmall(D), grid0)

ClaimRho(kd, d) ==
  IF kd = NONCOLINEAR
  THEN [ij \in {0, 1} \X {0, 1} |->
          CASE ij = <<0, 0>> -> <<d[1], 0>>
            [] ij = <<1, 1>> -> <<d[2], 0>>
            [] ij = <<1, 0>> -> <<d[3], 0 - d[4]>>
            [] OTHER -> <<d[3], d[4]>>]
  ELSE [ij \in {0, 1} \X {0, 1} |->
          CASE ij = <<0, 0>> -> <<d[1], d[5]>>
            [] ij = <<1, 1>> -> <<d[2], d[6]>>
            [] ij = <<1, 0>> -> <<d[3], 0 - d[4]>>
            [] OTHER -> <<d[7], d[8]>>]

\* Re(trace(S . rho)) with the matrix product (S . rho)[i, i] = sum_k S[i, k] * rho[k, i]
ReTrace(S, rho) ==
  CRe(CAdd(CAdd(CMul(At2(S, 0, 0), rho[<<0, 0>>]), CMul(At2(S, 0, 1), rho[<<1, 0>>])),
           CAdd(CMul(At2(S, 1, 0), rho[<<0, 1>>]), CMul(At2(S, 1, 1), rho[<<1, 1>>]))))

\* C6: for non-collinear and spin-orbit matrices the scalar value of every
\* pair is Re(trace(spinor . rho_spin)), for every 2x2 spinor, the identity
\* when none is given.
C6_TraceSpinorRho ==
  (Reduced /\ kind > POLARIZED) =>
    \A p \in Pos :
      DM[p] = ReTrace(IF spinor = SpNone THEN Identity2 ELSE spinor, ClaimRho(kind, D[p]))

\* C7: in the error outcome the grid values and the grid's geometry are what
\* they were before the call.
C7_ErrorBeforeMutation ==
  pc = "error" => (grid = grid0 /\ grid_geometry = grid_geometry0)

C7_Witness ==
  /\ pc = "error" /\ kind = NONCOLINEAR /\ err = "ValueError_2x2"
  /\ grid_geometry0 = "None" /\ grid0[0] # 0

\* C8: once the spinor has been looked at, every non-collinear or spin-orbit
\* spinor that is not a 2x2 matrix, and every polarized spinor that is neither
\* 0, 1 nor a vector of length 2, has ended in the shape-validation ValueError.
C8_ValidationComplete ==
  (pc # "start" /\ pc # "spin") =>
    /\ (kind > POLARIZED /\ spinor # SpNone
          /\ ~(spinor.t = "arr" /\ spinor.shape = <<2, 2>>))
         => (pc = "error" /\ err = "ValueError_2x2")
    /\ (kind = POLARIZED /\ spinor # SpNone
          /\ spinor \notin {SpInt(0), SpInt(1)}
          /\ ~(spinor.t = "arr" /\ spinor.shape = <<2>>))
         => (pc = "error" /\ err = "ValueError_polarized")

\* C9: the warning is emitted exactly when some atom has a fractional
\* coordinate x / CellL outside [0, 1).
C9_WarnIffOutsideHalfOpen ==
  pc # "start" => (warn_cell <=> \E a \in Atoms : xyz[a] < 0 \/ CellL <= xyz[a])

NoWave(ia) == atom_maxR(ia) <= 0
\* M without the pairs that involve an atom without a wave-function
DropNoWave(M) ==
  [p \in Pos |-> IF NoWave(o2a(p[1])) \/ NoWave(o2a(p[2] % no)) THEN 0 ELSE M[p]]

\* C10: the call ends normally with one warning per listed atom that has no
\* positive cutoff radius, every atom of the list has been passed, and the
\* grid has grown by the pairs between the other atoms alone.
C10_SkipNoWaveAtoms ==
  pc = "done" =>
    /\ err = "none"
    /\ k = Len(IA) + 1
    /\ warn_skip = Cardinality({n \in 1 .. Len(IA) : NoWave(IA[n][1])})
    /\ \A p \in GridPts :
         grid[p] = grid0[p] + RefField(DropNoWave(TolOp(SymSum(DM), tol)), p)

C10_Witness ==
  /\ pc = "done" /\ warn_skip > 0 /\ grid # grid0 /\ D = RichMatrix
  /\ \E n, m \in 1 .. Len(IA) : n < m /\ NoWave(IA[n][1]) /\ ~NoWave(IA[m][1])

(* ---------------- C11 ---------------- *)
\* C11: density() only reads the sparse matrix (its stored elements and
\* their spin kind) and the owning geometry (coordinates, orbital ranges):
\* no step of the call, on the normal path or on the error path, changes
\* them; what the call changes of the caller's objects is the grid.
C11_MatrixAndGeometryReadOnly ==
  [][D' = D /\ kind' = kind /\ xyz' = xyz /\ orbR' = orbR]_vars

\* a finished call that dropped a stored element by the tolerance and wrote the grid
C11_Witness ==
  /\ pc = "done"
  /\ grid # grid0
  /\ tol = 1
  /\ \E p \in Pos : Abs(D[p][1]) = 1 /\ csrDM[p] = 0

(* ---------------- C18 ---------------- *)
\* C18: on every exit path of density(), the normal return and the errors
\* raised for a bad spinor, the numpy error settings are what they were on
\* entry ("warn", the setting of Init).
C18_ErrSettingsRestored ==
  pc \in {"done", "error"} => np_err = "warn"

\* the part of C18 that the code keeps: a normal return restores the settings
ErrSettingsRestoredOnReturn ==
  pc = "done" => np_err = "warn"

(* ---------------- C16 ---------------- *)
\* C16: in every pass of the atom loop that writes, each index of idx lies
\* within the grid, no index occurs twice, every point of the atom's sphere
\* is present as its clamped index (clamped, not dropped), and the grid
\* changes exactly at the points of idx, by the field evaluated at the
\* coordinate of the clamped index.
C16_ClampedUniqueWrite ==
  [][(pc = "loop" /\ k <= Len(IA) /\ k' = k + 1 /\ atom_maxR(IA[k][1]) > 0) =>
       LET ia == IA[k][1]
           isc == IA[k][2]
           ia_xyz == xyz[ia] + isc * CellL
           R == atom_maxR(ia)
           used == {idx'[n] : n \in 1 .. Len(idx')}
       IN  /\ \A n \in 1 .. Len(idx') : 0 <= idx'[n] /\ idx'[n] <= NGrid - 1
           /\ \A m, n \in 1 .. Len(idx') : m # n => idx'[m] # idx'[n]
           /\ \A i \in (ia_xyz - R) .. (ia_xyz + R) :
                (IF i < 0 THEN 0 ELSE IF i > NGrid - 1 THEN NGrid - 1 ELSE i) \in used
           /\ \A p \in GridPts :
                grid'[p] - grid[p] = IF p \in used THEN AtomField(csrDM, ia, isc, p) ELSE 0
    ]_vars

\* the last write was for an atom whose sphere passes both ends of the grid:
\* its indices were clamped onto the end points, which received a field
C16_Witness ==
  /\ pc = "loop" /\ k > 1
  /\ LET ia == IA[k - 1][1]
         isc == IA[k - 1][2]
         ia_xyz == xyz[ia] + isc * CellL
         R == atom_maxR(ia)
     IN  /\ R > 0
         /\ ia_xyz - R < 0 /\ NGrid - 1 < ia_xyz + R
         /\ idx = [n \in 1 .. NGrid |-> n - 1]
         /\ AtomField(csrDM, ia, isc, 0) # 0
         /\ grid # grid0

(* ---------------- the calls on a matrix object ---------------- *)
\* a density() call that has not begun
DensAtRest ==
  /\ pc = "start"
  /\ kind = UNPOLARIZED /\ D = ZeroMatrix(UNPOLARIZED) /\ spinor = SpNone /\ tol = 0
  /\ xyz = DefaultXyz /\ orbR = DefaultR
  /\ grid0 = [p \in GridPts |-> 0] /\ grid = grid0
  /\ grid_geometry = "None" /\ grid_geometry0 = "None"
  /\ DM = [p \in Pos |-> 0] /\ csrDM = [p \in Pos |-> 0]
  /\ IA = <<>> /\ k = 0 /\ idx = <<>>
  /\ warn_cell = FALSE /\ warn_skip = 0
  /\ err = "none" /\ np_err = "warn"

\* the object after __init__
InitObj ==
  /\ DensAtRest /\ SileAtRest /\ ScAtRest
  /\ cls \in Classes /\ Dk_attr = InitAttr
  /\ def_dim = UP /\ elem = [c \in Chan |-> 0] /\ chan = UP
  /\ last = OpRec("init", "", 0, UP) /\ ret = Ret("self", 0)

\* obj.Dk(gauge=g), obj.Ek(gauge=g)
CallDk ==
  \E g \in Gauges :
    /\ ret' = Ret(DkOp(Dk_attr, g), 0)
    /\ last' = OpRec("Dk", g, 0, def_dim)
    /\ UNCHANGED <<densvars, silevars, scvars, cls, Dk_attr, def_dim, elem, chan>>

\* a read of obj.D (obj.E)
ReadD ==
  /\ def_dim' = get_D(def_dim)
  /\ ret' = Ret("self", 0)
  /\ last' = OpRec("get_D", "", 0, def_dim)
  /\ UNCHANGED <<densvars, silevars, scvars, cls, Dk_attr, elem, chan>>

\* obj.D = value: property calls _set_D(obj, value), which takes key and value
AssignD ==
  /\ ret' = Ret("TypeError", 0)
  /\ last' = OpRec("set_D", "", 0, def_dim)
  /\ UNCHANGED <<densvars, silevars, scvars, cls, Dk_attr, def_dim, elem, chan>>

\* any other accessor of the parent class that selects a default channel
OtherAccessor ==
  \E c \in Chan :
    /\ def_dim' = c
    /\ ret' = Ret("self", 0)
    /\ last' = OpRec("other", "", c, def_dim)
    /\ UNCHANGED <<densvars, silevars, scvars, cls, Dk_attr, elem, chan>>

\* obj[i, j]: a two-index key reads the default channel
GetItem2 ==
  /\ chan' = def_dim
  /\ ret' = Ret("value", elem[def_dim])
  /\ last' = OpRec("getitem", "", 0, def_dim)
  /\ UNCHANGED <<densvars, silevars, scvars, cls, Dk_attr, def_dim, elem>>

\* obj[i, j] = v: a two-index key writes the default channel
SetItem2 ==
  \E v \in ElemVals :
    /\ chan' = def_dim
    /\ elem' = [elem EXCEPT ![def_dim] = v]
    /\ ret' = Ret("None", 0)
    /\ last' = OpRec("setitem", "", v, def_dim)
    /\ UNCHANGED <<densvars, silevars, scvars, cls, Dk_attr, def_dim>>

\* obj.D[i, j]: the read of obj.D, then the item read on what it returned
D_GetItem ==
  LET d == get_D(def_dim)
  IN  /\ def_dim' = d
      /\ chan' = d
      /\ ret' = Ret("value", elem[d])
      /\ last' = OpRec("D_getitem", "", 0, def_dim)
      /\ UNCHANGED <<densvars, silevars, scvars, cls, Dk_attr, elem>>

\* obj.D[i, j] = v: the read of obj.D, then the item write on what it returned
D_SetItem ==
  \E v \in ElemVals :
    LET d == get_D(def_dim)
    IN  /\ def_dim' = d
        /\ chan' = d
        /\ elem' = [elem EXCEPT ![d] = v]
        /\ ret' = Ret("None", 0)
        /\ last' = OpRec("D_setitem", "", v, def_dim)
        /\ UNCHANGED <<densvars, silevars, scvars, cls, Dk_attr>>

NextObj ==
  \/ CallDk
  \/ ReadD
  \/ AssignD
  \/ OtherAccessor
  \/ GetItem2
  \/ SetItem2
  \/ D_GetItem
  \/ D_SetItem

SpecObj == InitObj /\ [][NextObj]_vars

(* ---------------- C13 ---------------- *)
\* C13: obj.Dk and obj.Ek take the gauges 'R' and 'r'; a call with gauge
\* 'r' ends in the not-implemented error: it returns neither a matrix nor
\* None.  The gauge 'R' returns the matrix.
C13_GaugeLowerRNotImplemented ==
  /\ (last.op = "Dk" /\ last.gauge = "r") => ret = <<"NotImplementedError", 0>>
  /\ (last.op = "Dk" /\ last.gauge = "R") => ret = <<"matrix", 0>>

\* Ek of an EnergyDensityMatrix was called with the gauge 'r'
C13_Witness ==
  /\ cls = "EnergyDensityMatrix"
  /\ last.op = "Dk" /\ last.gauge = "r"
  /\ ret[1] = "NotImplementedError"

(* ---------------- C17 ---------------- *)
\* C17: a read of obj.D (obj.E) returns the object and leaves _def_dim at UP
\* whatever it was before; an item read or write through the accessor with
\* a two-index key addresses the up channel.
C17_AccessorSelectsUp ==
  /\ last.op = "get_D" => (ret = <<"self", 0>> /\ def_dim = 0)
  /\ last.op \in {"D_getitem", "D_setitem"} => (def_dim = 0 /\ chan = 0)
  /\ last.op = "D_getitem" => ret = <<"value", elem[0]>>
  /\ last.op = "D_setitem" => elem[0] = last.val

\* an item write through the accessor that found another default channel
C17_Witness ==
  /\ last.op = "D_setitem" /\ last.val = 1
  /\ last.was = 2
  /\ chan = 0 /\ elem[0] = 1

(* ---------------- read and write: the steps ---------------- *)
InitSile ==
  /\ DensAtRest /\ SileAtRest /\ ScAtRest
  /\ cls \in Classes /\ Dk_attr = InitAttr
  /\ def_dim = UP /\ elem = [c \in Chan |-> 0] /\ chan = UP
  /\ last = OpRec("init", "", 0, UP) /\ ret = Ret("self", 0)

\* isinstance(sile, BaseSile): the method of the given handle is called, the
\* call returns what it returns or raises what it raises
ReadWriteHandle ==
  /\ io_pc = "idle"
  /\ \E op \in IoOps, caps \in SUBSET Methods, raises \in BOOLEAN :
       /\ io_req' = IoReq(op, "handle", caps, raises)
       /\ io_log' = << <<"call", Matching(cls, op)>> >>
       /\ io_out' = CallOutcome(Matching(cls, op), caps, raises)
  /\ UNCHANGED <<densvars, objvars, scvars, io_pc>>

\* with get_sile(sile) as fh / with get_sile(sile, 'w') as fh: the handle is
\* resolved and entered
OpenPath ==
  /\ io_pc = "idle"
  /\ \E op \in IoOps, caps \in SUBSET Methods, raises \in BOOLEAN :
       /\ io_req' = IoReq(op, "path", caps, raises)
       /\ io_log' = << <<"get_sile", Mode(op)>>, <<"enter", "fh">> >>
  /\ io_out' = "none"
  /\ io_pc' = "body"
  /\ UNCHANGED <<densvars, objvars, scvars>>

\* a body whose exception leaves the function without passing __exit__
CallInWith_noexit ==
  /\ io_pc = "body"
  /\ io_log' = Append(io_log, <<"call", Matching(cls, io_req.op)>>)
  /\ io_out' = CallOutcome(Matching(cls, io_req.op), io_req.caps, io_req.raises)
  /\ io_pc' = IF io_out' = "returned" THEN "exit" ELSE "idle"
  /\ UNCHANGED <<densvars, objvars, scvars, io_req>>

\* the body of the with statement: fh.<method>(...)
CallInWith ==
  /\ io_pc = "body"
  /\ io_log' = Append(io_log, <<"call", Matching(cls, io_req.op)>>)
  /\ io_out' = CallOutcome(Matching(cls, io_req.op), io_req.caps, io_req.raises)
  /\ io_pc' = "exit"
  /\ UNCHANGED <<densvars, objvars, scvars, io_req>>

\* the with statement is left, by return or by exception: __exit__ closes fh
ExitWith ==
  /\ io_pc = "exit"
  /\ io_log' = Append(io_log, <<"exit", "fh">>)
  /\ io_pc' = "idle"
  /\ UNCHANGED <<densvars, objvars, scvars, io_req, io_out>>

NextSile ==
  \/ ReadWriteHandle
  \/ OpenPath
  \/ CallInWith
  \/ ExitWith

SpecSile == InitSile /\ [][NextSile]_vars

(* ---------------- C12 ---------------- *)
\* C12: when read or write has ended, a given handle has had its matching
\* method called once and was neither opened nor closed; for anything else
\* a handle was resolved with get_sile (mode 'w' for write), entered, its
\* matching method called once, and closed afterwards, also when the call
\* raised or the method is missing; a missing method ends in an error.
C12_HandleProtocol ==
  (io_pc = "idle" /\ io_req.op # "none") =>
    LET m == CASE cls = "DensityMatrix" /\ io_req.op = "read" -> "read_density_matrix"
               [] cls = "DensityMatrix" /\ io_req.op = "write" -> "write_density_matrix"
               [] cls = "EnergyDensityMatrix" /\ io_req.op = "read" -> "read_energy_density_matrix"
               [] OTHER -> "write_energy_density_matrix"
    IN  /\ io_req.sile = "handle" => io_log = << <<"call", m>> >>
        /\ io_req.sile = "path" =>
             /\ Len(io_log) = 4
             /\ io_log[1][1] = "get_sile"
             /\ (io_req.op = "write" => io_log[1][2] = "w")
             /\ io_log[2] = <<"enter", "fh">>
             /\ io_log[3] = <<"call", m>>
             /\ io_log[4] = <<"exit", "fh">>
        /\ m \notin io_req.caps => io_out = "AttributeError"
        /\ (m \in io_req.caps /\ io_req.raises) => io_out = "SileError"
        /\ (m \in io_req.caps /\ ~io_req.raises) => io_out = "returned"

\* EnergyDensityMatrix.write on a path whose handle can only read has ended:
\* the handle was closed, the call ended in the error
C12_Witness ==
  /\ io_pc = "idle"
  /\ cls = "EnergyDensityMatrix"
  /\ io_req.op = "write" /\ io_req.sile = "path"
  /\ io_req.caps = {"read_energy_density_matrix", "read_density_matrix"}
  /\ io_out = "AttributeError"
  /\ io_log[4] = <<"exit", "fh">>

(* ---------------- SuperCell.set_nsc ---------------- *)
\* the triplets set_nsc is called with: zero, negative, even and odd counts
NscInputs == [1 .. 3 -> (0 - 1) .. MaxNsc]

\* setUp
InitNsc ==
  /\ DensAtRest /\ ObjAtRest /\ SileAtRest /\ ScAtRest

\* self.sc.set_nsc(n)
set_nsc ==
  \E n \in NscInputs :
    /\ sc_nsc' = SetNsc(n).nsc
    /\ sc_sc_off' = SetNsc(n).sc_off
    /\ last_n' = n
    /\ UNCHANGED <<densvars, objvars, silevars, sc_cell, sab, sab2, last_ij>>

NextNsc == set_nsc

SpecNsc == InitNsc /\ [][NextNsc]_vars

(* ---------------- C14 ---------------- *)
\* C14: after any sequence of set_nsc calls every stored count is odd and
\* at least 1, and sc_off lists each image of the counts once, so its
\* length is their product; set_nsc([5,5,0]) stores [5,5,1] with 25 images,
\* set_nsc([0,1,0]) stores [1,1,1] with one image.
C14_NscOddAndImagesMatch ==
  /\ \A c \in 1 .. 3 : sc_nsc[c] % 2 = 1 /\ sc_nsc[c] >= 1
  /\ \A c \in 1 .. 3 : sc_nsc[c] >= last_n[c] /\ (last_n[c] >= 1 => sc_nsc[c] <= last_n[c] + 1)
  /\ Len(sc_sc_off) = sc_nsc[1] * sc_nsc[2] * sc_nsc[3]
  /\ {sc_sc_off[m] : m \in 1 .. Len(sc_sc_off)} =
       {<<i, j, l>> : i \in (0 - (sc_nsc[1] \div 2)) .. (sc_nsc[1] \div 2),
                      j \in (0 - (sc_nsc[2] \div 2)) .. (sc_nsc[2] \div 2),
                      l \in (0 - (sc_nsc[3] \div 2)) .. (sc_nsc[3] \div 2)}
  /\ last_n = <<5, 5, 0>> => (sc_nsc = <<5, 5, 1>> /\ Len(sc_sc_off) = 25)
  /\ last_n = <<0, 1, 0>> => (sc_nsc = <<1, 1, 1>> /\ Len(sc_sc_off) = 1)

\* set_nsc was called with a zero, a negative and an even count
C14_Witness ==
  /\ last_n = <<0, 0 - 1, 4>>
  /\ sc_nsc = <<1, 1, 5>>
  /\ Len(sc_sc_off) = 5

(* ---------------- SuperCell.swapaxes ---------------- *)
\* cells of the shape of setUp's: two vectors in the plane, the third along z
Cells ==
  {<<<<a1, a2, 0>>, <<b1, b2, 0>>, <<0, 0, c3>>>> :
     <<a1, a2, b1, b2, c3>> \in (0 .. MaxCell) \X (0 .. MaxCell) \X (0 .. MaxCell)
                                \X (0 .. MaxCell) \X (0 .. MaxCell)}

InitSwap ==
  /\ DensAtRest /\ ObjAtRest /\ SileAtRest
  /\ sc_nsc = SetUpNsc /\ sc_sc_off = ScOff(SetUpNsc)
  /\ sc_cell \in Cells /\ sab = <<>> /\ sab2 = <<>>
  /\ last_n = SetUpNsc /\ last_ij = <<0, 0>>

\* sab = self.sc.swapaxes(i, j)
swapaxes ==
  \E i \in Axes, j \in Axes :
    /\ sab' = SwapAxes(sc_cell, i, j)
    /\ sab2' = <<>>
    /\ last_ij' = <<i, j>>
    /\ UNCHANGED <<densvars, objvars, silevars, sc_nsc, sc_sc_off, sc_cell, last_n>>

\* sab.swapaxes(i, j): the same exchange on the result
swapaxes_again ==
  /\ sab # <<>> /\ sab2 = <<>>
  /\ sab2' = SwapAxes(sab, last_ij[1], last_ij[2])
  /\ UNCHANGED <<densvars, objvars, silevars, sc_nsc, sc_sc_off, sc_cell, sab, last_n, last_ij>>

NextSwap ==
  \/ swapaxes
  \/ swapaxes_again

SpecSwap == InitSwap /\ [][NextSwap]_vars

(* ---------------- C15 ---------------- *)
\* C15: swapaxes(i, j) gives a new cell and leaves the receiver's: row i of
\* the result is row j of the receiver, row j is row i, the remaining row is
\* the same, and the same exchange applied to the result gives the
\* receiver's cell again.
C15_SwapAxesInvolution ==
  /\ sab # <<>> =>
       LET i == last_ij[1] + 1
           j == last_ij[2] + 1
       IN  /\ sab[i] = sc_cell[j]
           /\ sab[j] = sc_cell[i]
           /\ \A r \in 1 .. 3 : (r # i /\ r # j) => sab[r] = sc_cell[r]
  /\ sab2 # <<>> => sab2 = sc_cell

\* rows 0 and 2 of a cell with different rows were exchanged, twice
C15_Witness ==
  /\ last_ij = <<0, 2>>
  /\ sc_cell[1] # sc_cell[3]
  /\ sab # <<>> /\ sab # sc_cell
  /\ sab2 = sc_cell

====
